---------------------------- MODULE Spec2Model ----------------------------
(***************************************************************************)
(* Model of src/features/transactions/swap/utils.ts, the swap helpers of   *)
(* the wallet.  Every helper is a synchronous function of its arguments;   *)
(* a call is made from the idle state and returns to it.  The state        *)
(* machine records the call in progress: which helper ran (op), the        *)
(* arguments it received (args), the Trade object it was given as that     *)
(* object is after the call (trade, undefined when the helper takes none)  *)
(* and the value returned or the fact that the call threw (ret).           *)
(*                                                                         *)
(* JavaScript values that may be null or undefined are records with a      *)
(* "type" field; a string is the sequence of its characters.               *)
(***************************************************************************)
EXTENDS Integers, Sequences, FiniteSets, TLC

VARIABLES op, args, trade, ret

vars == <<op, args, trade, ret>>

------------------------------------------------------------------------------
(* JavaScript values *)

Undefined == [type |-> "undefined"]

Null == [type |-> "null"]

Str(chars) == [type |-> "string", chars |-> chars]

\* ToBoolean: undefined, null and the empty string are falsy; objects and
\* non-empty strings are truthy.
Truthy(v) ==
  /\ v.type \notin {"undefined", "null"}
  /\ (v.type = "string" => v.chars # <<>>)

\* a || b
OrElse(a, b) == IF Truthy(a) THEN a ELSE b

\* a?.f : undefined when a is null or undefined
OptChain(a, f) == IF a.type \in {"undefined", "null"} THEN Undefined ELSE a[f]

\* The outcome of a call that throws.
Throws == [type |-> "throw"]

------------------------------------------------------------------------------
(* Strings and decimal integers *)

RECURSIVE LowerChars(_)
LowerChar(c) ==
  CASE c = "A" -> "a" [] c = "B" -> "b" [] c = "C" -> "c"
    [] c = "D" -> "d" [] c = "E" -> "e" [] c = "F" -> "f"
    [] OTHER -> c

\* String.prototype.toLowerCase
LowerChars(s) == IF s = <<>> THEN <<>> ELSE <<LowerChar(Head(s))>> \o LowerChars(Tail(s))

DigitChars == <<"0", "1", "2", "3", "4", "5", "6", "7", "8", "9">>

DigitValue(c) == CHOOSE d \in 0..9 : DigitChars[d + 1] = c

IsDigit(c) == \E d \in 0..9 : DigitChars[d + 1] = c

\* BigInt / number -> decimal string, for n >= 0
RECURSIVE ToDecString(_)
ToDecString(n) ==
  IF n < 10 THEN <<DigitChars[n + 1]>>
  ELSE ToDecString(n \div 10) \o <<DigitChars[(n % 10) + 1]>>

\* decimal string -> integer
RECURSIVE ParseDec(_)
ParseDec(s) ==
  IF s = <<>> THEN 0
  ELSE 10 * ParseDec(SubSeq(s, 1, Len(s) - 1)) + DigitValue(s[Len(s)])

IsDecString(s) == s # <<>> /\ \A i \in 1..Len(s) : IsDigit(s[i])

\* index of the first occurrence of c in s, 0 if none
IndexOf(s, c) ==
  IF \E i \in 1..Len(s) : s[i] = c
  THEN CHOOSE i \in 1..Len(s) : s[i] = c /\ \A j \in 1..(i - 1) : s[j] # c
  ELSE 0

------------------------------------------------------------------------------
(* Currencies: src/constants/chains, src/constants/tokens, src/utils/currencyId *)

\* ChainId.Mainnet
Mainnet == 1

\* The members of the ChainId enum the model uses: Mainnet and Optimism.
SupportedChainIds == {Mainnet, 10}

\* The placeholder address under which a chain's native asset is identified.
NATIVE_ADDRESS == <<"E", "e", "e", "e">>

Token(chainId, address, symbol) ==
  [type |-> "object", isNative |-> FALSE, chainId |-> chainId,
   address |-> address, symbol |-> symbol]

NativeCurrency(chainId) ==
  [type |-> "object", isNative |-> TRUE, chainId |-> chainId, symbol |-> "ETH"]

\* WRAPPED_NATIVE_CURRENCY: chain id -> that chain's wrapped-native token
WRAPPED_NATIVE_CURRENCY ==
  [c \in SupportedChainIds |->
     IF c = Mainnet THEN Token(c, <<"C", "0", "2", "a">>, "WETH")
     ELSE Token(c, <<"4", "2", "0", "0">>, "WETH")]

\* Currency.wrapped: a token is its own wrapped form, the native asset's is
\* the chain's wrapped-native token.
Wrapped(currency) ==
  IF currency.isNative THEN WRAPPED_NATIVE_CURRENCY[currency.chainId] ELSE currency

\* currencyId(currency): "<chainId>-<address>"
currencyId(currency) ==
  ToDecString(currency.chainId) \o <<"-">> \o
    (IF currency.isNative THEN NATIVE_ADDRESS ELSE currency.address)

\* areCurrencyIdsEqual(id1, id2): identifiers compared without regard to case
areCurrencyIdsEqual(id1, id2) == LowerChars(id1) = LowerChars(id2)

\* areAddressesEqual(a1, a2): case-insensitive address equality; an absent
\* address equals nothing.
areAddressesEqual(a1, a2) ==
  /\ a1.type = "string"
  /\ a2.type = "string"
  /\ LowerChars(a1.chars) = LowerChars(a2.chars)

\* currencyIdToAddress(id): the part after the "-"
currencyIdToAddress(id) == SubSeq(id, IndexOf(id, "-") + 1, Len(id))

\* currencyIdToChain(id): the part before the "-" as a supported chain id, else null
currencyIdToChain(id) ==
  LET chainPart == SubSeq(id, 1, IndexOf(id, "-") - 1) IN
  IF IsDecString(chainPart) /\ ParseDec(chainPart) \in SupportedChainIds
  THEN [type |-> "number", value |-> ParseDec(chainPart)]
  ELSE Null

\* The tokens of a chain that the model draws currencies from: the chain's
\* wrapped-native token, the same token with its address in lower case, and
\* one unrelated token.
TokensOf(c) ==
  {WRAPPED_NATIVE_CURRENCY[c],
   Token(c, LowerChars(WRAPPED_NATIVE_CURRENCY[c].address), "WETH"),
   Token(c, <<"6", "B", "1", "7">>, "DAI")}

Currencies ==
  UNION {TokensOf(c) \cup {NativeCurrency(c)} : c \in SupportedChainIds}

OptCurrencies == Currencies \cup {Null, Undefined}

------------------------------------------------------------------------------
(* getWrapType, utils.ts:42-62 *)

WrapType == [NotApplicable |-> "NotApplicable", Wrap |-> "Wrap", Unwrap |-> "Unwrap"]

\* A slip that forgets the chain comparison of the guard.
getWrapType_NoChainCheck(inputCurrency, outputCurrency) ==
  IF ~Truthy(inputCurrency) \/ ~Truthy(outputCurrency)
  THEN WrapType.NotApplicable
  ELSE
    LET weth == WRAPPED_NATIVE_CURRENCY[inputCurrency.chainId] IN
    IF /\ inputCurrency.isNative
       /\ areCurrencyIdsEqual(currencyId(outputCurrency), currencyId(weth))
    THEN WrapType.Wrap
    ELSE IF /\ outputCurrency.isNative
            /\ areCurrencyIdsEqual(currencyId(inputCurrency), currencyId(weth))
    THEN WrapType.Unwrap
    ELSE WrapType.NotApplicable

getWrapType(inputCurrency, outputCurrency) ==
  IF \/ ~Truthy(inputCurrency)
     \/ ~Truthy(outputCurrency)
     \/ inputCurrency.chainId # outputCurrency.chainId
  THEN WrapType.NotApplicable
  ELSE
    LET weth == WRAPPED_NATIVE_CURRENCY[inputCurrency.chainId] IN
    IF /\ inputCurrency.isNative
       /\ areCurrencyIdsEqual(currencyId(outputCurrency), currencyId(weth))
    THEN WrapType.Wrap
    ELSE IF /\ outputCurrency.isNative
            /\ areCurrencyIdsEqual(currencyId(inputCurrency), currencyId(weth))
    THEN WrapType.Unwrap
    ELSE WrapType.NotApplicable

GetWrapType ==
  \E inputCurrency \in OptCurrencies, outputCurrency \in OptCurrencies :
    /\ op = "idle"
    /\ op' = "getWrapType"
    /\ args' = [inputCurrency |-> inputCurrency, outputCurrency |-> outputCurrency]
    /\ ret' = getWrapType(inputCurrency, outputCurrency)
    /\ trade' = Undefined

------------------------------------------------------------------------------
(* JavaScript numbers (IEEE-754 binary64) and Math.round, utils.ts:183       *)
(* A double is +/- m * 2^exp with m an integer below 2^53.  Integers too wide *)
(* for TLC's integers are sequences of bits, lowest bit first.                *)

\* Significand width of a binary64 number.
SignificandBits == 53

RECURSIVE NatToBits(_)
NatToBits(n) == IF n = 0 THEN <<>> ELSE <<n % 2>> \o NatToBits(n \div 2)

RECURSIVE BitsToNat(_)
BitsToNat(bits) == IF bits = <<>> THEN 0 ELSE Head(bits) + 2 * BitsToNat(Tail(bits))

\* drop the zero bits above the highest one bit
RECURSIVE TrimBits(_)
TrimBits(bits) ==
  IF bits = <<>> \/ bits[Len(bits)] = 1 THEN bits
  ELSE TrimBits(SubSeq(bits, 1, Len(bits) - 1))

Zeros(k) == [i \in 1..k |-> 0]

ShiftLeft(bits, k) == IF bits = <<>> THEN <<>> ELSE Zeros(k) \o bits

RECURSIVE AddBits(_, _, _)
AddBits(a, b, carry) ==
  IF a = <<>> /\ b = <<>> THEN (IF carry = 1 THEN <<1>> ELSE <<>>)
  ELSE
    LET x == IF a = <<>> THEN 0 ELSE Head(a)
        y == IF b = <<>> THEN 0 ELSE Head(b)
        s == x + y + carry
    IN <<s % 2>> \o AddBits(IF a = <<>> THEN <<>> ELSE Tail(a),
                            IF b = <<>> THEN <<>> ELSE Tail(b), s \div 2)

\* bits * n for a small natural n
RECURSIVE MulBits(_, _)
MulBits(bits, n) ==
  IF n = 0 THEN <<>>
  ELSE AddBits(IF n % 2 = 1 THEN bits ELSE <<>>,
               ShiftLeft(MulBits(bits, n \div 2), 1), 0)

HexChars == <<"0", "1", "2", "3", "4", "5", "6", "7", "8", "9",
              "a", "b", "c", "d", "e", "f">>

HexValue(c) == CHOOSE d \in 0..15 : HexChars[d + 1] = c

\* the bits of a hexadecimal numeral
RECURSIVE HexToBits(_)
HexToBits(hex) ==
  IF hex = <<>> THEN <<>>
  ELSE LET low == NatToBits(HexValue(hex[Len(hex)])) IN
       TrimBits(low \o Zeros(4 - Len(low)) \o HexToBits(SubSeq(hex, 1, Len(hex) - 1)))

\* The result of an arithmetic operation whose exact value is +/- m * 2^exp:
\* the nearest binary64 number, ties to the even significand.
RoundToBinary64(neg, m, exp) ==
  IF Len(m) <= SignificandBits THEN [neg |-> neg, m |-> m, exp |-> exp]
  ELSE
    LET k == Len(m) - SignificandBits
        q == SubSeq(m, k + 1, Len(m))
        half == m[k] = 1
        sticky == \E i \in 1..(k - 1) : m[i] = 1
        up == half /\ (sticky \/ q[1] = 1)
    IN [neg |-> neg,
        m |-> IF up THEN AddBits(q, <<1>>, 0) ELSE q,
        exp |-> exp + k]

\* Math.round(x): the integer nearest to x, the one closer to +Infinity of two
\* equally near.
MathRound(x) ==
  IF x.exp >= 0
  THEN (IF x.neg THEN -1 ELSE 1) * BitsToNat(ShiftLeft(x.m, x.exp))
  ELSE
    LET k == -x.exp
        whole == BitsToNat(SubSeq(x.m, k + 1, Len(x.m)))
        half == k <= Len(x.m) /\ x.m[k] = 1
        sticky == \E i \in 1..(k - 1) : i <= Len(x.m) /\ x.m[i] = 1
    IN IF x.neg
       THEN -(whole + (IF half /\ sticky THEN 1 ELSE 0))
       ELSE whole + (IF half THEN 1 ELSE 0)

\* x * n for a double x and a small natural n
NumberTimes(x, n) == RoundToBinary64(x.neg, MulBits(x.m, n), x.exp)

\* The slippage tolerances (percent) the model passes, each the binary64
\* number its decimal literal denotes: +/- hex * 2^exp.  thousandths is the
\* literal's decimal value times 1000.
SlippageLiterals == {
   [literal |-> "0", thousandths |-> 0, neg |-> FALSE,
    hex |-> <<"0">>, exp |-> 0],
   [literal |-> "0.004", thousandths |-> 4, neg |-> FALSE,
    hex |-> <<"1", "0", "6", "2", "4", "d", "d", "2", "f", "1", "a", "9", "f", "c">>, exp |-> -60],
   [literal |-> "0.015", thousandths |-> 15, neg |-> FALSE,
    hex |-> <<"1", "e", "b", "8", "5", "1", "e", "b", "8", "5", "1", "e", "b", "8">>, exp |-> -59],
   [literal |-> "0.1", thousandths |-> 100, neg |-> FALSE,
    hex |-> <<"1", "9", "9", "9", "9", "9", "9", "9", "9", "9", "9", "9", "9", "a">>, exp |-> -56],
   [literal |-> "0.125", thousandths |-> 125, neg |-> FALSE,
    hex |-> <<"1">>, exp |-> -3],
   [literal |-> "0.145", thousandths |-> 145, neg |-> FALSE,
    hex |-> <<"1", "2", "8", "f", "5", "c", "2", "8", "f", "5", "c", "2", "8", "f">>, exp |-> -55],
   [literal |-> "0.5", thousandths |-> 500, neg |-> FALSE,
    hex |-> <<"1">>, exp |-> -1],
   [literal |-> "1", thousandths |-> 1000, neg |-> FALSE,
    hex |-> <<"1">>, exp |-> 0],
   [literal |-> "1.005", thousandths |-> 1005, neg |-> FALSE,
    hex |-> <<"1", "0", "1", "4", "7", "a", "e", "1", "4", "7", "a", "e", "1", "4">>, exp |-> -52],
   [literal |-> "2.5", thousandths |-> 2500, neg |-> FALSE,
    hex |-> <<"1", "4">>, exp |-> -3],
   [literal |-> "50", thousandths |-> 50000, neg |-> FALSE,
    hex |-> <<"1", "9">>, exp |-> 1],
   [literal |-> "-0.5", thousandths |-> -500, neg |-> TRUE,
    hex |-> <<"1">>, exp |-> -1],
   [literal |-> "-0.125", thousandths |-> -125, neg |-> TRUE,
    hex |-> <<"1">>, exp |-> -3]}

ToNumber(lit) ==
  [neg |-> lit.neg, m |-> HexToBits(lit.hex), exp |-> lit.exp]

Slippages == {ToNumber(lit) : lit \in SlippageLiterals}

------------------------------------------------------------------------------
(* slippageToleranceToPercent, utils.ts:181-185 *)

BasisPointsPerPercent == 100

BasisPointsDenominator == 10000

\* new Percent(numerator, denominator)
Percent(numerator, denominator) ==
  [numerator |-> numerator, denominator |-> denominator]

slippageToleranceToPercent(slippage) ==
  LET basisPoints == MathRound(NumberTimes(slippage, BasisPointsPerPercent)) IN
  Percent(basisPoints, BasisPointsDenominator)

SlippageToleranceToPercent ==
  \E lit \in SlippageLiterals :
    /\ op = "idle"
    /\ op' = "slippageToleranceToPercent"
    /\ args' = [slippage |-> ToNumber(lit), literal |-> lit]
    /\ ret' = slippageToleranceToPercent(ToNumber(lit))
    /\ trade' = Undefined

------------------------------------------------------------------------------
(* Trades: @uniswap/sdk-core CurrencyAmount, Price and Percent, the          *)
(* @uniswap/router-sdk Trade that src/features/transactions/swap/useTrade    *)
(* extends with quote and slippageTolerance.                                  *)

TradeType == [EXACT_INPUT |-> "EXACT_INPUT", EXACT_OUTPUT |-> "EXACT_OUTPUT"]

\* a CurrencyAmount of quotient raw units
CurrencyAmount(currency, quotient) == [currency |-> currency, quotient |-> quotient]

MkTrade(tradeType, inputAmount, outputAmount, slippageTolerance, quote) ==
  [type |-> "object", tradeType |-> tradeType, inputAmount |-> inputAmount,
   outputAmount |-> outputAmount, slippageTolerance |-> slippageTolerance,
   quote |-> quote]

\* Trade.minimumAmountOut(slippageTolerance): rejects a negative tolerance;
\* the output itself for an exact-output trade, else
\* (1 + slippageTolerance)^-1 * outputAmount.quotient, rounded down.
minimumAmountOut(t, slippageTolerance) ==
  IF slippageTolerance.numerator < 0 THEN Throws
  ELSE IF t.tradeType = TradeType.EXACT_OUTPUT THEN t.outputAmount
  ELSE CurrencyAmount(
         t.outputAmount.currency,
         (slippageTolerance.denominator * t.outputAmount.quotient)
           \div (slippageTolerance.denominator + slippageTolerance.numerator))

\* Trade.maximumAmountIn(slippageTolerance): rejects a negative tolerance;
\* the input itself for an exact-input trade, else
\* (1 + slippageTolerance) * inputAmount.quotient, rounded down.
maximumAmountIn(t, slippageTolerance) ==
  IF slippageTolerance.numerator < 0 THEN Throws
  ELSE IF t.tradeType = TradeType.EXACT_INPUT THEN t.inputAmount
  ELSE CurrencyAmount(
         t.inputAmount.currency,
         ((slippageTolerance.denominator + slippageTolerance.numerator)
            * t.inputAmount.quotient) \div slippageTolerance.denominator)

\* Largest small raw amount, and the unit of the larger ones.
MaxAmount == 2

AmountStep == 1000

Amounts == (0..MaxAmount) \cup {k * AmountStep : k \in 1..MaxAmount}

MainnetDai == Token(Mainnet, <<"6", "B", "1", "7">>, "DAI")

\* (input currency, output currency) of the trades the model builds
TradePairs ==
  {<<NativeCurrency(Mainnet), MainnetDai>>,
   <<MainnetDai, WRAPPED_NATIVE_CURRENCY[Mainnet]>>,
   <<WRAPPED_NATIVE_CURRENCY[10], NativeCurrency(10)>>}

------------------------------------------------------------------------------
(* tradeToTransactionInfo, utils.ts:68-93 *)

\* A slip that applies the tolerance in the wrong direction: the output bound
\* is scaled up by (1 + tolerance), the input bound scaled down.
tradeToTransactionInfo_WrongDirection(t) ==
  LET slippageTolerance == slippageToleranceToPercent(t.slippageTolerance)
      scale == slippageTolerance.denominator + slippageTolerance.numerator
  IN IF slippageTolerance.numerator < 0 THEN Throws
     ELSE IF t.tradeType = TradeType.EXACT_INPUT
     THEN [type |-> "Swap",
           inputCurrencyId |-> currencyId(t.inputAmount.currency),
           outputCurrencyId |-> currencyId(t.outputAmount.currency),
           tradeType |-> TradeType.EXACT_INPUT,
           inputCurrencyAmountRaw |-> ToDecString(t.inputAmount.quotient),
           expectedOutputCurrencyAmountRaw |-> ToDecString(t.outputAmount.quotient),
           minimumOutputCurrencyAmountRaw |->
             ToDecString((scale * t.outputAmount.quotient)
                           \div slippageTolerance.denominator)]
     ELSE [type |-> "Swap",
           inputCurrencyId |-> currencyId(t.inputAmount.currency),
           outputCurrencyId |-> currencyId(t.outputAmount.currency),
           tradeType |-> TradeType.EXACT_OUTPUT,
           outputCurrencyAmountRaw |-> ToDecString(t.outputAmount.quotient),
           expectedInputCurrencyAmountRaw |-> ToDecString(t.inputAmount.quotient),
           maximumInputCurrencyAmountRaw |->
             ToDecString((slippageTolerance.denominator * t.inputAmount.quotient)
                           \div scale)]

\* A slip that reports the slippage-adjusted amount as the expected one and
\* tags every record EXACT_INPUT.
tradeToTransactionInfo_Slip(t) ==
  LET slippageTolerance == slippageToleranceToPercent(t.slippageTolerance)
      minOut == minimumAmountOut(t, slippageTolerance)
  IN IF minOut = Throws THEN Throws
     ELSE [type |-> "Swap",
           inputCurrencyId |-> currencyId(t.inputAmount.currency),
           outputCurrencyId |-> currencyId(t.outputAmount.currency),
           tradeType |-> TradeType.EXACT_INPUT,
           inputCurrencyAmountRaw |-> ToDecString(t.inputAmount.quotient),
           expectedOutputCurrencyAmountRaw |-> ToDecString(minOut.quotient),
           minimumOutputCurrencyAmountRaw |-> ToDecString(t.outputAmount.quotient)]

tradeToTransactionInfo(t) ==
  LET slippageTolerance == slippageToleranceToPercent(t.slippageTolerance) IN
  IF t.tradeType = TradeType.EXACT_INPUT
  THEN
    LET minOut == minimumAmountOut(t, slippageTolerance) IN
    IF minOut = Throws THEN Throws
    ELSE [type |-> "Swap",
          inputCurrencyId |-> currencyId(t.inputAmount.currency),
          outputCurrencyId |-> currencyId(t.outputAmount.currency),
          tradeType |-> TradeType.EXACT_INPUT,
          inputCurrencyAmountRaw |-> ToDecString(t.inputAmount.quotient),
          expectedOutputCurrencyAmountRaw |-> ToDecString(t.outputAmount.quotient),
          minimumOutputCurrencyAmountRaw |-> ToDecString(minOut.quotient)]
  ELSE
    LET maxIn == maximumAmountIn(t, slippageTolerance) IN
    IF maxIn = Throws THEN Throws
    ELSE [type |-> "Swap",
          inputCurrencyId |-> currencyId(t.inputAmount.currency),
          outputCurrencyId |-> currencyId(t.outputAmount.currency),
          tradeType |-> TradeType.EXACT_OUTPUT,
          outputCurrencyAmountRaw |-> ToDecString(t.outputAmount.quotient),
          expectedInputCurrencyAmountRaw |-> ToDecString(t.inputAmount.quotient),
          maximumInputCurrencyAmountRaw |-> ToDecString(maxIn.quotient)]

TradeToTransactionInfo ==
  \E tradeType \in {TradeType.EXACT_INPUT, TradeType.EXACT_OUTPUT},
     pair \in TradePairs, amountIn \in Amounts, amountOut \in Amounts,
     slippage \in Slippages :
    LET t == MkTrade(tradeType, CurrencyAmount(pair[1], amountIn),
                     CurrencyAmount(pair[2], amountOut), slippage, Undefined)
    IN /\ op = "idle"
       /\ op' = "tradeToTransactionInfo"
       /\ args' = [trade |-> t]
       /\ ret' = tradeToTransactionInfo(t)
       /\ trade' = t

------------------------------------------------------------------------------
(* requireAcceptNewTrade, utils.ts:95-100 *)

Calldata(chars) == Str(chars)

MethodParameters(calldata) ==
  [type |-> "object", calldata |-> calldata, value |-> Str(<<"0", "x", "0">>)]

Quote(methodParameters) == [type |-> "object", methodParameters |-> methodParameters]

\* The quotes a trade may carry: none, one without method parameters, and
\* ones with calldata.
Quotes ==
  {Undefined, Null, Quote(Undefined), Quote(Null),
   Quote(MethodParameters(Calldata(<<"0", "x", "a">>))),
   Quote(MethodParameters(Calldata(<<"0", "x", "b">>)))}

QuotedTrades ==
  {MkTrade(TradeType.EXACT_INPUT,
           CurrencyAmount(NativeCurrency(Mainnet), AmountStep),
           CurrencyAmount(MainnetDai, 2 * AmountStep),
           ToNumber(CHOOSE lit \in SlippageLiterals : lit.literal = "0.5"), q)
     : q \in Quotes}

OptQuotedTrades == QuotedTrades \cup {Null, Undefined}

\* a && a.f : a itself when a is falsy
AndChain(a, f) == IF Truthy(a) THEN a[f] ELSE a

\* A guard chain written with && instead of ?. keeps null apart from undefined.
requireAcceptNewTrade_AndChain(oldTrade, newTrade) ==
  AndChain(AndChain(AndChain(oldTrade, "quote"), "methodParameters"), "calldata")
    # AndChain(AndChain(AndChain(newTrade, "quote"), "methodParameters"), "calldata")

requireAcceptNewTrade(oldTrade, newTrade) ==
  OptChain(OptChain(OptChain(oldTrade, "quote"), "methodParameters"), "calldata")
    # OptChain(OptChain(OptChain(newTrade, "quote"), "methodParameters"), "calldata")

RequireAcceptNewTrade ==
  \E oldTrade \in OptQuotedTrades, newTrade \in OptQuotedTrades :
    /\ op = "idle"
    /\ op' = "requireAcceptNewTrade"
    /\ args' = [oldTrade |-> oldTrade, newTrade |-> newTrade]
    /\ ret' = requireAcceptNewTrade(oldTrade, newTrade)
    /\ trade' = Undefined

------------------------------------------------------------------------------
(* getRateToDisplay, utils.ts:102-109 *)

\* new Price(baseCurrency, quoteCurrency, denominator, numerator): numerator
\* units of quoteCurrency per denominator units of baseCurrency
Price(baseCurrency, quoteCurrency, denominator, numerator) ==
  [baseCurrency |-> baseCurrency, quoteCurrency |-> quoteCurrency,
   denominator |-> denominator, numerator |-> numerator]

\* Trade.executionPrice
executionPrice(t) ==
  Price(t.inputAmount.currency, t.outputAmount.currency,
        t.inputAmount.quotient, t.outputAmount.quotient)

\* Price.invert()
invert(price) ==
  Price(price.quoteCurrency, price.baseCurrency, price.numerator, price.denominator)

\* Digits after the decimal point that the price formatting keeps.
PriceDecimals == 2

RECURSIVE Pow10(_)
Pow10(k) == IF k = 0 THEN 1 ELSE 10 * Pow10(k - 1)

\* formatPrice(price, NumberType.SwapPrice): the price as a decimal numeral
\* with a fixed number of decimals, rounded down
formatPrice(price) ==
  LET scaled == (price.numerator * Pow10(PriceDecimals)) \div price.denominator
      frac == ToDecString(scaled % Pow10(PriceDecimals))
  IN ToDecString(scaled \div Pow10(PriceDecimals)) \o <<".">>
       \o [i \in 1..(PriceDecimals - Len(frac)) |-> "0"] \o frac

\* The branch one would write going by the names of the two templates.
getRateToDisplay_ByName(t, showInverseRate) ==
  LET price == IF showInverseRate THEN invert(executionPrice(t)) ELSE executionPrice(t)
      formattedPrice == formatPrice(price)
      quoteCurrency == executionPrice(t).quoteCurrency
      baseCurrency == executionPrice(t).baseCurrency
      rate == <<"1 ", quoteCurrency.symbol, " = ", formattedPrice, " ", baseCurrency.symbol>>
      inverseRate ==
        <<"1 ", baseCurrency.symbol, " = ", formattedPrice, " ", quoteCurrency.symbol>>
  IN IF showInverseRate THEN inverseRate ELSE rate

getRateToDisplay(t, showInverseRate) ==
  LET price == IF showInverseRate THEN invert(executionPrice(t)) ELSE executionPrice(t)
      formattedPrice == formatPrice(price)
      quoteCurrency == executionPrice(t).quoteCurrency
      baseCurrency == executionPrice(t).baseCurrency
      rate == <<"1 ", quoteCurrency.symbol, " = ", formattedPrice, " ", baseCurrency.symbol>>
      inverseRate ==
        <<"1 ", baseCurrency.symbol, " = ", formattedPrice, " ", quoteCurrency.symbol>>
  IN IF showInverseRate THEN rate ELSE inverseRate

PositiveAmounts == Amounts \ {0}

GetRateToDisplay ==
  \E pair \in TradePairs, amountIn \in PositiveAmounts, amountOut \in PositiveAmounts,
     tradeType \in {TradeType.EXACT_INPUT, TradeType.EXACT_OUTPUT},
     showInverseRate \in BOOLEAN :
    LET t == MkTrade(tradeType, CurrencyAmount(pair[1], amountIn),
                     CurrencyAmount(pair[2], amountOut),
                     ToNumber(CHOOSE lit \in SlippageLiterals : lit.literal = "0.5"),
                     Undefined)
    IN /\ op = "idle"
       /\ op' = "getRateToDisplay"
       /\ args' = [trade |-> t, showInverseRate |-> showInverseRate]
       /\ ret' = getRateToDisplay(t, showInverseRate)
       /\ trade' = t

------------------------------------------------------------------------------
(* sumGasFees, utils.ts:136-140 *)
(* An ethers BigNumber is an integer of any size: here the sequence of its  *)
(* decimal digits, lowest first, without leading zeros (zero is empty).      *)

RECURSIVE Reverse(_)
Reverse(s) == IF s = <<>> THEN <<>> ELSE Reverse(Tail(s)) \o <<Head(s)>>

\* drop the zero digits above the highest non-zero digit
RECURSIVE TrimDigits(_)
TrimDigits(digits) ==
  IF digits = <<>> \/ digits[Len(digits)] # 0 THEN digits
  ELSE TrimDigits(SubSeq(digits, 1, Len(digits) - 1))

\* BigNumber.from(decimal string)
BigNumberFrom(chars) ==
  TrimDigits(Reverse([i \in 1..Len(chars) |-> DigitValue(chars[i])]))

\* BigNumber.add
RECURSIVE BigNumberAdd(_, _, _)
BigNumberAdd(a, b, carry) ==
  IF a = <<>> /\ b = <<>> THEN (IF carry = 0 THEN <<>> ELSE <<carry>>)
  ELSE
    LET x == IF a = <<>> THEN 0 ELSE Head(a)
        y == IF b = <<>> THEN 0 ELSE Head(b)
        sum == x + y + carry
    IN <<sum % 10>> \o BigNumberAdd(IF a = <<>> THEN <<>> ELSE Tail(a),
                                    IF b = <<>> THEN <<>> ELSE Tail(b), sum \div 10)

\* BigNumber.toString
BigNumberToString(digits) ==
  IF digits = <<>> THEN <<"0">>
  ELSE LET r == Reverse(digits) IN [i \in 1..Len(r) |-> DigitChars[r[i] + 1]]

\* A slip that drops the second operand of the fallback.
sumGasFees_FirstOnly(gasFee1, gasFee2) ==
  IF ~Truthy(gasFee1) \/ ~Truthy(gasFee2) THEN gasFee1
  ELSE Str(BigNumberToString(
             BigNumberAdd(BigNumberFrom(gasFee1.chars), BigNumberFrom(gasFee2.chars), 0)))

sumGasFees(gasFee1, gasFee2) ==
  IF ~Truthy(gasFee1) \/ ~Truthy(gasFee2) THEN OrElse(gasFee1, gasFee2)
  ELSE Str(BigNumberToString(
             BigNumberAdd(BigNumberFrom(gasFee1.chars), BigNumberFrom(gasFee2.chars), 0)))

\* Longest of the short fee strings.
MaxFeeDigits == 2

FeeDigits == {"0", "1", "5", "9"}

RECURSIVE StringsOver(_, _)
StringsOver(alphabet, len) ==
  IF len = 0 THEN {<<>>}
  ELSE {<<c>> \o s : c \in alphabet, s \in StringsOver(alphabet, len - 1)}

\* 2^53, 2^53 + 1, 2^64 - 1 and a run of nines
LargeFees ==
  {<<"9", "0", "0", "7", "1", "9", "9", "2", "5", "4", "7", "4", "0", "9", "9", "2">>,
   <<"9", "0", "0", "7", "1", "9", "9", "2", "5", "4", "7", "4", "0", "9", "9", "3">>,
   <<"1", "8", "4", "4", "6", "7", "4", "4", "0", "7", "3", "7", "0", "9", "5", "5",
     "1", "6", "1", "5">>,
   <<"9", "9", "9", "9", "9", "9", "9", "9", "9", "9", "9", "9", "9", "9", "9", "9",
     "9", "9">>}

\* the fee arguments: absent, the empty string, short decimal strings (leading
\* zeros included) and large ones
GasFees ==
  {Undefined}
    \cup {Str(s) : s \in UNION {StringsOver(FeeDigits, n) : n \in 0..MaxFeeDigits}}
    \cup {Str(s) : s \in LargeFees}

SumGasFees ==
  \E gasFee1 \in GasFees, gasFee2 \in GasFees :
    /\ op = "idle"
    /\ op' = "sumGasFees"
    /\ args' = [gasFee1 |-> gasFee1, gasFee2 |-> gasFee2]
    /\ ret' = sumGasFees(gasFee1, gasFee2)
    /\ trade' = Undefined

------------------------------------------------------------------------------
(* clearStaleTrades, utils.ts:142-160 *)

IsNullish(v) == v.type \in {"undefined", "null"}

\* currency?.wrapped.address
WrappedAddressOf(currency) ==
  IF IsNullish(currency) THEN Undefined ELSE Str(Wrapped(currency).address)

\* A slip that accepts a trade when either side matches.
clearStaleTrades_EitherSide(t, currencyIn, currencyOut) ==
  LET currencyInAddress == WrappedAddressOf(currencyIn)
      currencyOutAddress == WrappedAddressOf(currencyOut)
      inputsMatch ==
        /\ Truthy(currencyInAddress)
        /\ areAddressesEqual(
             currencyInAddress,
             IF IsNullish(t) THEN Undefined ELSE WrappedAddressOf(t.inputAmount.currency))
      outputsMatch ==
        /\ Truthy(currencyOutAddress)
        /\ areAddressesEqual(
             currencyOutAddress,
             IF IsNullish(t) THEN Undefined ELSE WrappedAddressOf(t.outputAmount.currency))
  IN IF inputsMatch \/ outputsMatch THEN t ELSE Null

clearStaleTrades(t, currencyIn, currencyOut) ==
  LET currencyInAddress == WrappedAddressOf(currencyIn)
      currencyOutAddress == WrappedAddressOf(currencyOut)
      inputsMatch ==
        /\ Truthy(currencyInAddress)
        /\ areAddressesEqual(
             currencyInAddress,
             IF IsNullish(t) THEN Undefined ELSE WrappedAddressOf(t.inputAmount.currency))
      outputsMatch ==
        /\ Truthy(currencyOutAddress)
        /\ areAddressesEqual(
             currencyOutAddress,
             IF IsNullish(t) THEN Undefined ELSE WrappedAddressOf(t.outputAmount.currency))
  IN IF inputsMatch /\ outputsMatch THEN t ELSE Null

\* the trades whose staleness is decided, one per currency pair
FetchedTrades ==
  {MkTrade(TradeType.EXACT_INPUT, CurrencyAmount(pair[1], AmountStep),
           CurrencyAmount(pair[2], 2 * AmountStep),
           ToNumber(CHOOSE lit \in SlippageLiterals : lit.literal = "0.5"),
           Quote(MethodParameters(Calldata(<<"0", "x", "a">>))))
     : pair \in TradePairs}

ClearStaleTrades ==
  \E t \in FetchedTrades \cup {Null, Undefined},
     currencyIn \in OptCurrencies, currencyOut \in OptCurrencies :
    /\ op = "idle"
    /\ op' = "clearStaleTrades"
    /\ args' = [trade |-> t, currencyIn |-> currencyIn, currencyOut |-> currencyOut]
    /\ ret' = clearStaleTrades(t, currencyIn, currencyOut)
    /\ trade' = t

------------------------------------------------------------------------------
(* prepareSwapFormState, utils.ts:162-179 *)

CurrencyField == [INPUT |-> "input", OUTPUT |-> "output"]

AssetType == [Currency |-> "currency"]

\* a ?? b
Coalesce(a, b) == IF IsNullish(a) THEN b ELSE a.value

\* A slip that seeds the chain with the default whatever the identifier says.
prepareSwapFormState_DefaultChain(inputCurrencyId) ==
  IF Truthy(inputCurrencyId)
  THEN [exactCurrencyField |-> CurrencyField.INPUT,
        exactAmountToken |-> <<>>,
        input |-> [address |-> currencyIdToAddress(inputCurrencyId.chars),
                   chainId |-> Mainnet,
                   type |-> AssetType.Currency],
        output |-> Null]
  ELSE Undefined

prepareSwapFormState(inputCurrencyId) ==
  IF Truthy(inputCurrencyId)
  THEN [exactCurrencyField |-> CurrencyField.INPUT,
        exactAmountToken |-> <<>>,
        input |-> [address |-> currencyIdToAddress(inputCurrencyId.chars),
                   chainId |-> Coalesce(currencyIdToChain(inputCurrencyId.chars), Mainnet),
                   type |-> AssetType.Currency],
        output |-> Null]
  ELSE Undefined

\* identifiers naming a chain outside the ChainId enum, or no chain at all
ForeignCurrencyIds ==
  {<<"5">> \o <<"-">> \o MainnetDai.address,
   <<"x">> \o <<"-">> \o MainnetDai.address}

CurrencyIds ==
  {Undefined, Str(<<>>)}
    \cup {Str(currencyId(c)) : c \in Currencies}
    \cup {Str(id) : id \in ForeignCurrencyIds}

PrepareSwapFormState ==
  \E inputCurrencyId \in CurrencyIds :
    /\ op = "idle"
    /\ op' = "prepareSwapFormState"
    /\ args' = [inputCurrencyId |-> inputCurrencyId]
    /\ ret' = prepareSwapFormState(inputCurrencyId)
    /\ trade' = Undefined

------------------------------------------------------------------------------
(* getSwapMethodParameters, utils.ts:187-225 *)
(* The router SDKs are outside the repository: the value returned stands for *)
(* the call made, the SDK entry point with the trade and options it received. *)
(* flag is the universalRouterEnabled argument.                               *)

UniversalSwapRouter == "UniversalSwapRouter.swapERC20CallParameters"

SwapRouter == "SwapRouter.swapCallParameters"

SdkCall(entry, t, options) == [sdk |-> entry, trade |-> t, options |-> options]

\* { ...a, ...b }: the properties of both, b's winning
Spread(a, b) == b @@ a

\* a PermitSignatureInfo: the signature and the permit message it signs
Permit2Signatures ==
  {[type |-> "object", signature |-> <<"s", "1">>,
    permitMessage |-> [details |-> "d1", spender |-> "router", sigDeadline |-> 1]],
   [type |-> "object", signature |-> <<"s", "2">>,
    permitMessage |-> [details |-> "d2", spender |-> "router", sigDeadline |-> 2]]}

\* a PermitOptions
PermitInfos == {[type |-> "object", v |-> 27, r |-> "r1", s |-> "s1", deadline |-> 1]}

Recipients == {<<"a", "1">>, <<"b", "2">>}

\* A slip that lets the feature flag alone select the router.
getSwapMethodParameters_FlagOnly(permit2Signature, t, address, permitInfo, flag) ==
  LET slippageTolerancePercent == slippageToleranceToPercent(t.slippageTolerance)
      baseOptions ==
        [slippageTolerance |-> slippageTolerancePercent, recipient |-> address]
  IN IF flag
     THEN
       LET universalRouterSwapOptions ==
             IF Truthy(permit2Signature)
             THEN Spread(baseOptions,
                         [inputTokenPermit |->
                            Spread([signature |-> permit2Signature.signature],
                                   permit2Signature.permitMessage)])
             ELSE baseOptions
       IN SdkCall(UniversalSwapRouter, t, universalRouterSwapOptions)
     ELSE
       LET swapOptions ==
             IF Truthy(permitInfo)
             THEN Spread(baseOptions, [inputTokenPermit |-> permitInfo])
             ELSE baseOptions
       IN SdkCall(SwapRouter, t, swapOptions)

getSwapMethodParameters(permit2Signature, t, address, permitInfo, flag) ==
  LET slippageTolerancePercent == slippageToleranceToPercent(t.slippageTolerance)
      baseOptions ==
        [slippageTolerance |-> slippageTolerancePercent, recipient |-> address]
  IN IF flag \/ Truthy(permit2Signature)
     THEN
       LET universalRouterSwapOptions ==
             IF Truthy(permit2Signature)
             THEN Spread(baseOptions,
                         [inputTokenPermit |->
                            Spread([signature |-> permit2Signature.signature],
                                   permit2Signature.permitMessage)])
             ELSE baseOptions
       IN SdkCall(UniversalSwapRouter, t, universalRouterSwapOptions)
     ELSE
       LET swapOptions ==
             IF Truthy(permitInfo)
             THEN Spread(baseOptions, [inputTokenPermit |-> permitInfo])
             ELSE baseOptions
       IN SdkCall(SwapRouter, t, swapOptions)

\* the trades handed to the router: both trade types, every slippage tolerance
RoutedTrades ==
  {MkTrade(tradeType, CurrencyAmount(NativeCurrency(Mainnet), AmountStep),
           CurrencyAmount(MainnetDai, 2 * AmountStep), slippage, Undefined)
     : tradeType \in {TradeType.EXACT_INPUT, TradeType.EXACT_OUTPUT},
       slippage \in Slippages}

GetSwapMethodParameters ==
  \E permit2Signature \in Permit2Signatures \cup {Undefined},
     permitInfo \in PermitInfos \cup {Null, Undefined},
     t \in RoutedTrades, address \in Recipients, universalRouterEnabled \in BOOLEAN :
    /\ op = "idle"
    /\ op' = "getSwapMethodParameters"
    /\ args' = [permit2Signature |-> permit2Signature, trade |-> t, address |-> address,
                permitInfo |-> permitInfo,
                universalRouterEnabled |-> universalRouterEnabled]
    /\ ret' = getSwapMethodParameters(permit2Signature, t, address, permitInfo,
                                      universalRouterEnabled)
    /\ trade' = t

------------------------------------------------------------------------------
Init ==
  /\ op = "idle"
  /\ args = Undefined
  /\ trade = Undefined
  /\ ret = Undefined

\* The caller takes the result; the module keeps nothing between calls.
Return ==
  /\ op # "idle"
  /\ op' = "idle"
  /\ args' = Undefined
  /\ trade' = Undefined
  /\ ret' = Undefined

Next ==
  \/ GetWrapType
  \/ SlippageToleranceToPercent
  \/ TradeToTransactionInfo
  \/ RequireAcceptNewTrade
  \/ GetRateToDisplay
  \/ SumGasFees
  \/ ClearStaleTrades
  \/ PrepareSwapFormState
  \/ GetSwapMethodParameters
  \/ Return

Spec == Init /\ [][Next]_vars

------------------------------------------------------------------------------
(* Properties *)

\* c is (case-insensitively, by currency id) the wrapped-native token of chain
IsWrappedNativeOf(c, chain) ==
  areCurrencyIdsEqual(currencyId(c), currencyId(WRAPPED_NATIVE_CURRENCY[chain]))

WrapCase(i, o) ==
  /\ Truthy(i) /\ Truthy(o)
  /\ i.chainId = o.chainId
  /\ i.isNative
  /\ IsWrappedNativeOf(o, o.chainId)

UnwrapCase(i, o) ==
  /\ Truthy(i) /\ Truthy(o)
  /\ i.chainId = o.chainId
  /\ o.isNative
  /\ IsWrappedNativeOf(i, i.chainId)

\* C1: getWrapType returns Wrap exactly when both currencies are present, on
\* the same chain, the input native and the output that chain's wrapped-native
\* token; Unwrap exactly when both are present, on the same chain, the output
\* native and the input the wrapped-native token; NotApplicable otherwise.
C1_WrapTypeClassification ==
  op = "getWrapType" =>
    LET i == args.inputCurrency
        o == args.outputCurrency
    IN /\ (ret = WrapType.Wrap) <=> WrapCase(i, o)
       /\ (ret = WrapType.Unwrap) <=> UnwrapCase(i, o)
       /\ (ret = WrapType.NotApplicable) <=> (~WrapCase(i, o) /\ ~UnwrapCase(i, o))

\* An unwrap was recognised although the input's address is spelled in lower case.
C1_Witness ==
  /\ op = "getWrapType"
  /\ ret = WrapType.Unwrap
  /\ args.inputCurrency # WRAPPED_NATIVE_CURRENCY[args.inputCurrency.chainId]
  /\ args.outputCurrency.isNative

\* C2: a returned record of an exact-input trade has minimum output <= expected
\* output, of an exact-output trade maximum input >= expected input, as integers.
C2_SlippageBoundsOrdered ==
  (op = "tradeToTransactionInfo" /\ ret # Throws) =>
    /\ args.trade.tradeType = TradeType.EXACT_INPUT =>
         ParseDec(ret.minimumOutputCurrencyAmountRaw)
           <= ParseDec(ret.expectedOutputCurrencyAmountRaw)
    /\ args.trade.tradeType = TradeType.EXACT_OUTPUT =>
         ParseDec(ret.maximumInputCurrencyAmountRaw)
           >= ParseDec(ret.expectedInputCurrencyAmountRaw)

\* An exact-input trade whose minimum output is strictly below the expected one.
C2_Witness ==
  /\ op = "tradeToTransactionInfo"
  /\ ret # Throws
  /\ args.trade.tradeType = TradeType.EXACT_INPUT
  /\ ParseDec(ret.minimumOutputCurrencyAmountRaw)
       < ParseDec(ret.expectedOutputCurrencyAmountRaw)

\* s is the decimal numeral of n, without leading zeros
IsDecimalFormOf(s, n) ==
  /\ IsDecString(s)
  /\ (Len(s) > 1 => s[1] # "0")
  /\ ParseDec(s) = n

\* C7: the record carries the trade's own tradeType, the currency ids of the
\* trade's input and output currencies and the decimal strings of the trade's
\* integer amounts; the trade is left as it was passed.
C7_RecordMirrorsTrade ==
  (op = "tradeToTransactionInfo" /\ ret # Throws) =>
    LET t == args.trade IN
    /\ ret.tradeType = t.tradeType
    /\ ret.inputCurrencyId = currencyId(t.inputAmount.currency)
    /\ ret.outputCurrencyId = currencyId(t.outputAmount.currency)
    /\ t.tradeType = TradeType.EXACT_INPUT =>
         /\ IsDecimalFormOf(ret.inputCurrencyAmountRaw, t.inputAmount.quotient)
         /\ IsDecimalFormOf(ret.expectedOutputCurrencyAmountRaw, t.outputAmount.quotient)
    /\ t.tradeType = TradeType.EXACT_OUTPUT =>
         /\ IsDecimalFormOf(ret.outputCurrencyAmountRaw, t.outputAmount.quotient)
         /\ IsDecimalFormOf(ret.expectedInputCurrencyAmountRaw, t.inputAmount.quotient)
    /\ trade = t

\* A record of an exact-output trade with multi-digit amounts and different
\* input and output currency ids.
C7_Witness ==
  /\ op = "tradeToTransactionInfo"
  /\ ret # Throws
  /\ args.trade.tradeType = TradeType.EXACT_OUTPUT
  /\ args.trade.inputAmount.quotient >= AmountStep
  /\ args.trade.outputAmount.quotient >= AmountStep
  /\ ret.inputCurrencyId # ret.outputCurrencyId

\* s * 100 for the double s, exactly (no rounding to a double), rounded to the
\* nearest integer, ties up.
ExactBasisPoints(s) ==
  MathRound([neg |-> s.neg, m |-> MulBits(s.m, BasisPointsPerPercent), exp |-> s.exp])

\* C8: slippageToleranceToPercent(s) has denominator 10000 and numerator s*100
\* rounded exactly to the nearest integer, ties half-up.
C8_ExactHalfUpBasisPoints ==
  op = "slippageToleranceToPercent" =>
    /\ ret.denominator = BasisPointsDenominator
    /\ ret.numerator = ExactBasisPoints(args.slippage)

\* The same statement with s read as the decimal numeral that was written:
\* thousandths / 10 rounded half-up.
C8_DecimalReading ==
  op = "slippageToleranceToPercent" =>
    ret.numerator = (args.literal.thousandths + 5) \div 10

\* C3: the universal-router SDK is called iff the flag is set or a permit2
\* signature is given, else the legacy one, one call either way; the universal
\* call carries inputTokenPermit only with a permit2 signature (its signature
\* and permit message) and never permitInfo, the legacy call carries permitInfo
\* as inputTokenPermit only when given; both get the trade, the trade's
\* slippage percent and the address as recipient.
C3_RouterSelection ==
  op = "getSwapMethodParameters" =>
    LET universal == args.universalRouterEnabled \/ ~IsNullish(args.permit2Signature)
        options == ret.options
        hasPermit == "inputTokenPermit" \in DOMAIN options
    IN /\ ret.sdk = (IF universal THEN UniversalSwapRouter ELSE SwapRouter)
       /\ ret.trade = args.trade
       /\ options.slippageTolerance = slippageToleranceToPercent(args.trade.slippageTolerance)
       /\ options.recipient = args.address
       /\ DOMAIN options \subseteq {"slippageTolerance", "recipient", "inputTokenPermit"}
       /\ universal =>
            /\ hasPermit <=> ~IsNullish(args.permit2Signature)
            /\ hasPermit =>
                 /\ options.inputTokenPermit.signature = args.permit2Signature.signature
                 /\ \A k \in DOMAIN args.permit2Signature.permitMessage :
                      options.inputTokenPermit[k] = args.permit2Signature.permitMessage[k]
                 /\ options.inputTokenPermit # args.permitInfo
       /\ ~universal =>
            /\ hasPermit <=> ~IsNullish(args.permitInfo)
            /\ hasPermit => options.inputTokenPermit = args.permitInfo

\* The flag is off and a raw permit is given too, yet the permit2 signature
\* alone sends the call to the universal router.
C3_Witness ==
  /\ op = "getSwapMethodParameters"
  /\ ~args.universalRouterEnabled
  /\ ~IsNullish(args.permit2Signature)
  /\ ~IsNullish(args.permitInfo)
  /\ ret.sdk = UniversalSwapRouter

\* the selected currencies are both present and their wrapped addresses equal,
\* case aside, those of the trade's currencies
SelectionMatches(t, currencyIn, currencyOut) ==
  /\ ~IsNullish(t) /\ ~IsNullish(currencyIn) /\ ~IsNullish(currencyOut)
  /\ LowerChars(Wrapped(currencyIn).address)
       = LowerChars(Wrapped(t.inputAmount.currency).address)
  /\ LowerChars(Wrapped(currencyOut).address)
       = LowerChars(Wrapped(t.outputAmount.currency).address)

\* C4: clearStaleTrades returns the very trade it was given, unmodified, when
\* both selected wrapped addresses equal the trade's case-insensitively, and
\* null on a mismatch of either side or when a selected currency is absent.
C4_StaleTradeCleared ==
  op = "clearStaleTrades" =>
    /\ ret = (IF SelectionMatches(args.trade, args.currencyIn, args.currencyOut)
              THEN args.trade ELSE Null)
    /\ trade = args.trade

\* A trade kept although the selected input is the native asset (the trade's
\* is the wrapped token) or spelled in another case.
C4_Witness ==
  /\ op = "clearStaleTrades"
  /\ ret # Null
  /\ ret = args.trade
  /\ args.currencyIn # args.trade.inputAmount.currency

\* the calldata of a trade, absent when the trade, its quote or the quote's
\* method parameters are missing
HasCalldata(t) ==
  /\ ~IsNullish(t)
  /\ ~IsNullish(t.quote)
  /\ ~IsNullish(t.quote.methodParameters)

\* C5: requireAcceptNewTrade is true iff the two calldata differ, a missing
\* trade, quote or methodParameters counting as absent calldata: false when
\* both are identical or both absent, true when exactly one is absent.
C5_AcceptIffCalldataDiffers ==
  op = "requireAcceptNewTrade" =>
    LET o == args.oldTrade
        n == args.newTrade
    IN ret = IF HasCalldata(o) /\ HasCalldata(n)
             THEN o.quote.methodParameters.calldata.chars
                    # n.quote.methodParameters.calldata.chars
             ELSE HasCalldata(o) # HasCalldata(n)

\* "Keep old" although one trade is null and the other carries a quote
\* without method parameters.
C5_Witness ==
  /\ op = "requireAcceptNewTrade"
  /\ ret = FALSE
  /\ args.oldTrade = Null
  /\ ~IsNullish(args.newTrade)
  /\ ~IsNullish(args.newTrade.quote)

\* the value of a decimal string modulo m
RECURSIVE DecMod(_, _)
DecMod(s, m) ==
  IF s = <<>> THEN 0
  ELSE (10 * DecMod(SubSeq(s, 1, Len(s) - 1), m) + DigitValue(s[Len(s)])) % m

\* Pairwise coprime moduli whose product exceeds 10^23: two naturals below
\* that product with the same residues are the same number.
Moduli == {99999989, 99999971, 99999959}

\* sum is the decimal numeral of the integer a + b
IsExactSum(sum, a, b) ==
  /\ IsDecString(sum)
  /\ Len(sum) <= 23 /\ Len(a) < 23 /\ Len(b) < 23
  /\ (Len(sum) > 1 => sum[1] # "0")
  /\ \A m \in Moduli : DecMod(sum, m) = (DecMod(a, m) + DecMod(b, m)) % m

IsFee(v) == v = Undefined \/ (v.type = "string" /\ IsDecString(v.chars))

\* C6: for optional decimal-integer strings sumGasFees returns the decimal
\* string of the exact sum when both are present, the present one unchanged
\* when one is, undefined when none is.
C6_ExactGasFeeSum ==
  (op = "sumGasFees" /\ IsFee(args.gasFee1) /\ IsFee(args.gasFee2)) =>
    LET a == args.gasFee1
        b == args.gasFee2
    IN /\ (a # Undefined /\ b # Undefined) =>
            ret.type = "string" /\ IsExactSum(ret.chars, a.chars, b.chars)
       /\ (a # Undefined /\ b = Undefined) => ret = a
       /\ (a = Undefined /\ b # Undefined) => ret = b
       /\ (a = Undefined /\ b = Undefined) => ret = Undefined

\* A sum of two fees beyond 2^53 that carries into a longer numeral.
C6_Witness ==
  /\ op = "sumGasFees"
  /\ args.gasFee1 # Undefined /\ args.gasFee2 # Undefined
  /\ Len(args.gasFee1.chars) >= 16 /\ Len(args.gasFee2.chars) >= 16
  /\ ret.type = "string"
  /\ Len(ret.chars) > Len(args.gasFee1.chars)
  /\ Len(ret.chars) > Len(args.gasFee2.chars)

\* C9: with showInverseRate the string is "1 <quote> = <inverted price> <base>",
\* without it "1 <base> = <price> <quote>": either way the number is the
\* amount of the right-hand currency per unit of the left-hand one.
C9_RateMatchesCurrencyOrder ==
  op = "getRateToDisplay" =>
    LET input == args.trade.inputAmount
        output == args.trade.outputAmount
        left == IF args.showInverseRate THEN output ELSE input
        right == IF args.showInverseRate THEN input ELSE output
    IN ret = <<"1 ", left.currency.symbol, " = ",
               formatPrice([numerator |-> right.quotient, denominator |-> left.quotient]),
               " ", right.currency.symbol>>

\* The inverse rate of a trade whose two amounts differ.
C9_Witness ==
  /\ op = "getRateToDisplay"
  /\ args.showInverseRate
  /\ args.trade.inputAmount.quotient > args.trade.outputAmount.quotient
  /\ ret[2] = args.trade.outputAmount.currency.symbol

\* C10: without an identifier prepareSwapFormState returns undefined; for a
\* valid identifier the state has a null OUTPUT side, the INPUT side holds the
\* identifier's address and chain id with type Currency, the exact field is
\* INPUT and the exact amount the empty string.
C10_FormStateSeeded ==
  op = "prepareSwapFormState" =>
    /\ args.inputCurrencyId = Undefined => ret = Undefined
    /\ \A chain \in SupportedChainIds :
         \A c \in TokensOf(chain) \cup {NativeCurrency(chain)} :
           args.inputCurrencyId = Str(currencyId(c)) =>
             /\ ret.output = Null
             /\ ret.input.address = (IF c.isNative THEN NATIVE_ADDRESS ELSE c.address)
             /\ ret.input.chainId = chain
             /\ ret.input.type = AssetType.Currency
             /\ ret.exactCurrencyField = CurrencyField.INPUT
             /\ ret.exactAmountToken = <<>>
             /\ DOMAIN ret = {"exactCurrencyField", "exactAmountToken", "input", "output"}

\* A state seeded from a token of a chain other than the default one.
C10_Witness ==
  /\ op = "prepareSwapFormState"
  /\ ret # Undefined
  /\ ret.input.chainId # Mainnet
  /\ ret.input.address # NATIVE_ADDRESS

==============================================================================
